---------------------------- MODULE Spec2Model ----------------------------
(***************************************************************************)
(* A model of src/src/App.jsx (Multidown): the link extractor              *)
(* (isVideoUrl, findDownloadLink), the resilient fetcher                   *)
(* (fetchWithBackups), the query handler (fetchVideoInfo) and the download *)
(* orchestrator (handleDownload), together with the React state they       *)
(* read and write.                                                         *)
(*                                                                         *)
(* JavaScript strings are TLA+ strings (sequences of characters): Len,     *)
(* \o and SubSeq are the only operations used on them.  Every other        *)
(* JavaScript value is a record tagged by its typeof-like kind "t".        *)
(***************************************************************************)
EXTENDS Integers, Sequences, FiniteSets, TLC

VARIABLES
    url,          \* useState('')     the input field's text
    loading,      \* useState(false)
    error,        \* useState(null)   Null or Str(message)
    result,       \* useState(null)   Null or a result object
    downloading,  \* useState(false)
    aiLoading,    \* useState(false)
    aiOutput,     \* useState(null)
    aiMode,       \* useState(null)
    queries,      \* the fetchVideoInfo invocations in progress, by slot
    settled,      \* the fetchWithBackups call that settled last: what it did
    download,     \* the handleDownload invocation (the button is disabled while one runs)
    ai,           \* the generateAIContent invocation (the buttons are disabled while one runs)
    call          \* one invocation of a pure helper: its argument and return

vars == <<url, loading, error, result, downloading, aiLoading, aiOutput,
          aiMode, queries, settled, download, ai, call>>

reactState == <<url, loading, error, result, downloading, aiLoading,
                aiOutput, aiMode>>

(***************************************************************************)
(* JavaScript values                                                       *)
(***************************************************************************)
Null == [t |-> "null"]

Undefined == [t |-> "undefined"]

Str(s) == [t |-> "string", s |-> s]

Num(n) == [t |-> "number", n |-> n]

Bool(b) == [t |-> "boolean", b |-> b]

\* An object is its own enumerable properties in for-in order: a sequence
\* of <<key, value>> pairs with distinct keys.
Obj(e) == [t |-> "object", e |-> e]

\* An array is an object whose keys are its indices "0", "1", ...
Arr2(a, b) == Obj(<< <<"0", a>>, <<"1", b>> >>)

Arr1(a) == Obj(<< <<"0", a>> >>)

IsString(v) == v.t = "string"

IsObject(v) == v.t = "object"

\* ToBoolean: what `!v`, `v && ...` and `v || ...` test.
Truthy(v) ==
    CASE v.t = "string"  -> v.s # ""
      [] v.t = "number"  -> v.n # 0
      [] v.t = "boolean" -> v.b
      [] v.t = "object"  -> TRUE
      [] OTHER           -> FALSE

\* a || b
OrElse(a, b) == IF Truthy(a) THEN a ELSE b

RECURSIVE FindProp(_, _, _)
FindProp(e, key, i) ==
    IF i > Len(e) THEN Undefined
    ELSE IF e[i][1] = key THEN e[i][2]
    ELSE FindProp(e, key, i + 1)

\* v[key] for a non-nullish v.  A property read on a number or a boolean
\* finds nothing for the keys this program reads; strings are never
\* property-read for a key of theirs that exists.
GetProp(v, key) == IF IsObject(v) THEN FindProp(v.e, key, 1) ELSE Undefined

(***************************************************************************)
(* Strings                                                                 *)
(***************************************************************************)
CharAt(s, i) == SubSeq(s, i, i)

\* Whether the characters of s from position i on begin with lit.
MatchAt(s, i, lit) == i + Len(lit) - 1 <= Len(s) /\ SubSeq(s, i, i + Len(lit) - 1) = lit

startsWith(s, p) == MatchAt(s, 1, p)

UpperOf == [a |-> "A", b |-> "B", c |-> "C", d |-> "D", e |-> "E", f |-> "F",
            g |-> "G", h |-> "H", i |-> "I", j |-> "J", k |-> "K", l |-> "L",
            m |-> "M", n |-> "N", o |-> "O", p |-> "P", q |-> "Q", r |-> "R",
            s |-> "S", t |-> "T", u |-> "U", v |-> "V", w |-> "W", x |-> "X",
            y |-> "Y", z |-> "Z"]

LowerOf == [A |-> "a", B |-> "b", C |-> "c", D |-> "d", E |-> "e", F |-> "f",
            G |-> "g", H |-> "h", I |-> "i", J |-> "j", K |-> "k", L |-> "l",
            M |-> "m", N |-> "n", O |-> "o", P |-> "p", Q |-> "q", R |-> "r",
            S |-> "s", T |-> "t", U |-> "u", V |-> "v", W |-> "w", X |-> "x",
            Y |-> "y", Z |-> "z"]

Min(S) == CHOOSE x \in S : \A y \in S : x <= y

Max(S) == CHOOSE x \in S : \A y \in S : x >= y

\* s with every character c replaced by f[c] (a string, possibly empty)
\* where f has one, by halves so that the nesting stays shallow.
RECURSIVE MapChars(_, _)
MapChars(s, f) ==
    IF s = "" THEN ""
    ELSE IF Len(s) = 1 THEN (IF s \in DOMAIN f THEN f[s] ELSE s)
    ELSE LET h == Len(s) \div 2
         IN MapChars(SubSeq(s, 1, h), f) \o MapChars(SubSeq(s, h + 1, Len(s)), f)

toLowerCase(s) == MapChars(s, LowerOf)

\* The case folding of a regular expression with the i flag (Canonicalize).
Canonicalize(s) == MapChars(s, UpperOf)

(***************************************************************************)
(* isVideoUrl (lines 59-64)                                                *)
(***************************************************************************)
ImageExtensions == {"jpg", "jpeg", "png", "webp", "gif", "svg", "bmp", "tiff"}

\* /\.(jpg|jpeg|png|webp|gif|svg|bmp|tiff)$/ without the i flag.
ImageRegexTestCaseSensitive(s) ==
    \E x \in ImageExtensions :
        /\ Len(s) >= Len(x) + 1
        /\ SubSeq(s, Len(s) - Len(x), Len(s)) = "." \o x

\* /\.(jpg|jpeg|png|webp|gif|svg|bmp|tiff)$/i.test(s)
ImageRegexTest(s) ==
    \E x \in ImageExtensions :
        /\ Len(s) >= Len(x) + 1
        /\ Canonicalize(SubSeq(s, Len(s) - Len(x), Len(s)))
             = Canonicalize("." \o x)

isVideoUrl(v) ==
    IF ~IsString(v) \/ ~startsWith(v.s, "http") THEN FALSE
    ELSE IF ImageRegexTest(v.s) THEN FALSE
    ELSE TRUE

(***************************************************************************)
(* findDownloadLink (lines 67-102)                                         *)
(***************************************************************************)
\* The list of line 76 with its first two keys exchanged.
priorityKeysSdFirst == <<"sd", "hd", "mp4", "video", "stream", "download_url", "download">>

priorityKeys == <<"hd", "sd", "mp4", "video", "stream", "download_url", "download">>

genericKeys == <<"url", "link", "src">>

excludedKeys == {"thumbnail", "image", "cover", "poster", "avatars", "author"}

\* for (const key of keys) if (obj[key] && isVideoUrl(obj[key])) return obj[key]
\* v is obj[keys[i]].
RECURSIVE FirstKeyMatch(_, _, _)
KeyMatch(obj, keys, i, v) ==
    IF Truthy(v) /\ isVideoUrl(v) THEN v ELSE FirstKeyMatch(obj, keys, i + 1)

FirstKeyMatch(obj, keys, i) ==
    IF i > Len(keys) THEN Null ELSE KeyMatch(obj, keys, i, GetProp(obj, keys[i]))

\* line 95, with the key compared as written
SkipsKeyCaseSensitive(key) == key \in excludedKeys

\* line 95
SkipsKey(key) == toLowerCase(key) \in excludedKeys

RECURSIVE findDownloadLink(_)
RECURSIVE RecursiveSearch(_, _)
\* line 98: if (found) return found
FoundOrNext(found, e, i) == IF Truthy(found) THEN found ELSE RecursiveSearch(e, i + 1)

\* lines 93-99: for (const key in obj) ...
RecursiveSearch(e, i) ==
    IF i > Len(e) THEN Null
    ELSE IF SkipsKey(e[i][1]) THEN RecursiveSearch(e, i + 1)
    ELSE FoundOrNext(findDownloadLink(e[i][2]), e, i)

\* lines 92-101
SearchDeeper(obj) == IF IsObject(obj) THEN RecursiveSearch(obj.e, 1) ELSE Null

\* lines 84-99 with the recursive search run before the generic keys are
\* consulted.
DeeperOrGeneric(obj, byGeneric) ==
    IF SearchDeeper(obj) # Null THEN SearchDeeper(obj) ELSE byGeneric

\* lines 84-89; byGeneric is what the loop over genericKeys found.
GenericOrDeeper(obj, byGeneric) ==
    IF byGeneric # Null THEN byGeneric ELSE SearchDeeper(obj)

\* lines 76-81; byPriority is what the loop over priorityKeys found.
PriorityOrGeneric(obj, byPriority) ==
    IF byPriority # Null THEN byPriority
    ELSE GenericOrDeeper(obj, FirstKeyMatch(obj, genericKeys, 1))

findDownloadLink(obj) ==
    IF ~Truthy(obj) THEN Null
    ELSE IF IsString(obj) THEN (IF isVideoUrl(obj) THEN obj ELSE Null)
    ELSE PriorityOrGeneric(obj, FirstKeyMatch(obj, priorityKeys, 1))

(***************************************************************************)
(* JSON.parse / Response.json(), on the JSON texts without white space,    *)
(* arrays, signs, fractions or escapes other than \" and \\ : the texts    *)
(* the sample responses are written in.  A parse step returns              *)
(* [ok, v, next]: whether a value was read at position i, the value, and   *)
(* the position after it.                                                  *)
(***************************************************************************)
Digits == <<"0", "1", "2", "3", "4", "5", "6", "7", "8", "9">>

IsDigit(c) == \E d \in 1..10 : Digits[d] = c

DigitValue(c) == (CHOOSE d \in 1..10 : Digits[d] = c) - 1

ParseFail == [ok |-> FALSE, v |-> Undefined, next |-> 0]

RECURSIVE ScanNumber(_, _, _)
ScanNumber(s, i, acc) ==
    IF i <= Len(s) /\ IsDigit(CharAt(s, i))
    THEN ScanNumber(s, i + 1, acc * 10 + DigitValue(CharAt(s, i)))
    ELSE [ok |-> TRUE, v |-> Num(acc), next |-> i]

\* The characters after an opening quote, up to the closing one: the run up
\* to the next quote or backslash (at j) is taken whole.
RECURSIVE ScanString(_, _, _)
ScanStringAt(s, i, acc, j) ==
    IF CharAt(s, j) = "\""
    THEN [ok |-> TRUE, v |-> Str(acc \o SubSeq(s, i, j - 1)), next |-> j + 1]
    ELSE IF j + 1 <= Len(s) /\ CharAt(s, j + 1) \in {"\"", "\\"}
    THEN ScanString(s, j + 2, acc \o SubSeq(s, i, j - 1) \o CharAt(s, j + 1))
    ELSE ParseFail

ScanStringFrom(s, i, acc, special) ==
    IF special = {} THEN ParseFail ELSE ScanStringAt(s, i, acc, Min(special))

ScanString(s, i, acc) ==
    ScanStringFrom(s, i, acc, {j \in i..Len(s) : CharAt(s, j) \in {"\"", "\\"}})

\* A later member with the same name replaces the value and keeps the place.
RECURSIVE PutProp(_, _, _, _)
PutProp(e, key, v, i) ==
    IF i > Len(e) THEN Append(e, <<key, v>>)
    ELSE IF e[i][1] = key THEN [e EXCEPT ![i] = <<key, v>>]
    ELSE PutProp(e, key, v, i + 1)

RECURSIVE ParseValue(_, _)
RECURSIVE ParseMembers(_, _, _)
\* After a member: e is the members read, j the position after the value.
AfterMember(s, j, e) ==
    IF j > Len(s) THEN ParseFail
    ELSE IF CharAt(s, j) = "}" THEN [ok |-> TRUE, v |-> Obj(e), next |-> j + 1]
    ELSE IF CharAt(s, j) = "," THEN ParseMembers(s, j + 1, e)
    ELSE ParseFail

\* m is the parse of the value of the member named key.
AfterMemberValue(s, key, m, acc) ==
    IF ~m.ok THEN ParseFail ELSE AfterMember(s, m.next, PutProp(acc, key, m.v, 1))

\* k is the parse of a member's name.
AfterMemberName(s, k, acc) ==
    IF ~k.ok \/ ~MatchAt(s, k.next, ":") THEN ParseFail
    ELSE AfterMemberValue(s, k.v.s, ParseValue(s, k.next + 1), acc)

\* i is at the opening quote of a member's name.
ParseMembers(s, i, acc) ==
    IF ~MatchAt(s, i, "\"") THEN ParseFail
    ELSE AfterMemberName(s, ScanString(s, i + 1, ""), acc)

ParseValueAt(s, i, c) ==
    CASE c = "n" ->
           IF MatchAt(s, i, "null")
           THEN [ok |-> TRUE, v |-> Null, next |-> i + 4] ELSE ParseFail
      [] c = "t" ->
           IF MatchAt(s, i, "true")
           THEN [ok |-> TRUE, v |-> Bool(TRUE), next |-> i + 4] ELSE ParseFail
      [] c = "f" ->
           IF MatchAt(s, i, "false")
           THEN [ok |-> TRUE, v |-> Bool(FALSE), next |-> i + 5] ELSE ParseFail
      [] c = "\"" -> ScanString(s, i + 1, "")
      [] c = "{" ->
           IF MatchAt(s, i + 1, "}")
           THEN [ok |-> TRUE, v |-> Obj(<<>>), next |-> i + 2]
           ELSE ParseMembers(s, i + 1, <<>>)
      [] c = "0" -> [ok |-> TRUE, v |-> Num(0), next |-> i + 1]
      [] IsDigit(c) /\ c # "0" -> ScanNumber(s, i, 0)
      [] OTHER -> ParseFail

ParseValue(s, i) == IF i > Len(s) THEN ParseFail ELSE ParseValueAt(s, i, CharAt(s, i))

\* The whole text must be one value.
WholeText(s, r) ==
    IF r.ok /\ r.next = Len(s) + 1 THEN [ok |-> TRUE, v |-> r.v]
    ELSE [ok |-> FALSE, v |-> Undefined]

\* [ok |-> FALSE] is the SyntaxError.
JSONParse(s) == WholeText(s, ParseValue(s, 1))

RECURSIVE DigitsOf(_)
DigitsOf(n) == IF n < 10 THEN Digits[n + 1] ELSE DigitsOf(n \div 10) \o Digits[(n % 10) + 1]

\* String(v), as JSON.parse applies it to a non-string argument.
StringOf(v) ==
    CASE v.t = "string"  -> v.s
      [] v.t = "number"  -> DigitsOf(v.n)
      [] v.t = "boolean" -> IF v.b THEN "true" ELSE "false"
      [] v.t = "object"  -> "[object Object]"
      [] OTHER           -> v.t

(***************************************************************************)
(* fetchWithBackups (lines 105-149)                                        *)
(*                                                                         *)
(* A response is what one fetch() settles with: a transport fault (the     *)
(* promise rejects), or a status, a content-type header (Null when the     *)
(* header is missing) and a body text.                                     *)
(***************************************************************************)
Fault == [fault |-> TRUE, ok |-> FALSE, contentType |-> Null, body |-> ""]

Http(ok, contentType, body) ==
    [fault |-> FALSE, ok |-> ok, contentType |-> contentType, body |-> body]

Err(name, message) == [t |-> "error", name |-> name, message |-> message]

FetchFailureMessage ==
    "Unable to fetch video info. Network might be blocked or URL is invalid."

ExtractionFailureMessage ==
    "Could not find a valid video link. The link might be private or an image."

UnexpectedMessage == "An unexpected error occurred. Please check the URL."

TransportError == Err("TypeError", "Failed to fetch")

SyntaxError == Err("SyntaxError", "Unexpected token in JSON")

\* What reading a property of null throws (the text is the engine's).
NullReadError(key) ==
    Err("TypeError", "Cannot read properties of null (reading '" \o key \o "')")

includes(s, sub) == \E i \in 1..(Len(s) + 1) : MatchAt(s, i, sub)

\* What one try block of fetchWithBackups comes to: it returns v, or control
\* falls through to the next block after its catch swallowed `caught` (Null
\* when nothing was thrown), or an exception leaves the block (`escaped`,
\* Null when none does).  `parsed` tells whether the body was handed to the
\* JSON parser.
Returns(v) ==
    [returned |-> TRUE, v |-> v, parsed |-> TRUE, caught |-> Null, escaped |-> Null]

FallsThrough(parsed, caught) ==
    [returned |-> FALSE, v |-> Undefined, parsed |-> parsed, caught |-> caught,
     escaped |-> Null]

Escapes(parsed, e) ==
    [returned |-> FALSE, v |-> Undefined, parsed |-> parsed, caught |-> Null,
     escaped |-> e]

\* await res.json(), inside a try block; p is the parse of the body.
JsonRead(p) == IF p.ok THEN Returns(p.v) ELSE FallsThrough(TRUE, SyntaxError)

ReadJson(r) == JsonRead(JSONParse(r.body))

\* The test of line 111 dropped: every successful response is parsed.
DeclaresJsonAlways(contentType) == TRUE

\* if (contentType && contentType.includes("application/json"))
DeclaresJson(contentType) ==
    Truthy(contentType) /\ includes(contentType.s, "application/json")

\* lines 107-117
TryDirect(r) ==
    IF r.fault THEN FallsThrough(FALSE, TransportError)
    ELSE IF r.ok /\ DeclaresJson(r.contentType) THEN ReadJson(r)
    ELSE FallsThrough(FALSE, Null)

\* lines 120-128
TryProxyA(r) ==
    IF r.fault THEN FallsThrough(FALSE, TransportError)
    ELSE IF r.ok THEN ReadJson(r)
    ELSE FallsThrough(FALSE, Null)

\* JSON.parse(data.contents) with no handler around it.
JsonReadUnguarded(p) == IF p.ok THEN Returns(p.v) ELSE Escapes(TRUE, SyntaxError)

ParseContentsUnguarded(contents) == JsonReadUnguarded(JSONParse(StringOf(contents)))

\* lines 137-141: try { return JSON.parse(data.contents) } catch (parseError) {}
ParseContents(contents) == JsonRead(JSONParse(StringOf(contents)))

\* line 136: if (data.contents) ...
WithContents(contents) ==
    IF Truthy(contents) THEN ParseContents(contents) ELSE FallsThrough(TRUE, Null)

\* lines 135-136; p is the parse of the envelope.
WithEnvelope(p) ==
    IF ~p.ok THEN FallsThrough(TRUE, SyntaxError)
    ELSE IF p.v = Null THEN FallsThrough(TRUE, NullReadError("contents"))
    ELSE WithContents(GetProp(p.v, "contents"))

\* lines 131-146
TryProxyB(r) ==
    IF r.fault THEN FallsThrough(FALSE, TransportError)
    ELSE IF ~r.ok THEN FallsThrough(FALSE, Null)
    ELSE WithEnvelope(JSONParse(r.body))

\* The order of the three try blocks.
StrategiesProxyBFirst == <<"direct", "proxyB", "proxyA">>

Strategies == <<"direct", "proxyA", "proxyB">>

Try(strategy, r) ==
    CASE strategy = "direct" -> TryDirect(r)
      [] strategy = "proxyA" -> TryProxyA(r)
      [] strategy = "proxyB" -> TryProxyB(r)

(***************************************************************************)
(* fetchVideoInfo (lines 151-193)                                          *)
(*                                                                         *)
(* An invocation runs to its first await (the direct request), resumes     *)
(* once per response, and runs from the fetcher's settling to its          *)
(* finally block without another await.  queries[i] is an invocation:      *)
(*   pc      "idle" | "fetching"                                           *)
(*   address the url the invocation read                                   *)
(*   step    the block of fetchWithBackups whose request is outstanding    *)
(*   trace   per block entered, the response it got and what it came to    *)
(*   superseded  whether a later query began while this one was pending    *)
(* and settled = [address, trace, fetched, superseded] is what the         *)
(* fetchWithBackups call that settled last did and how it settled, since   *)
(* the latest query began.                                                 *)
(***************************************************************************)
MaxQueries == 2

Pending == [kind |-> "pending", v |-> Undefined]

Resolved(v) == [kind |-> "resolved", v |-> v]

Rejected(e) == [kind |-> "rejected", v |-> e]

IdleQuery ==
    [pc |-> "idle", address |-> "", step |-> 0, trace |-> <<>>, superseded |-> FALSE]

NoneSettled ==
    [address |-> "", trace |-> <<>>, fetched |-> Pending, superseded |-> FALSE]

WhiteSpace == {" ", "\t", "\n"}

\* String.prototype.trim: s from its first to its last non-space character.
trim(s) ==
    LET ink == {i \in 1..Len(s) : CharAt(s, i) \notin WhiteSpace}
    IN IF ink = {} THEN "" ELSE SubSeq(s, Min(ink), Max(ink))

\* lines 44-47
handleInputChange(text) ==
    /\ url' = text
    /\ error' = IF Truthy(error) THEN Null ELSE error
    /\ UNCHANGED <<loading, result, downloading, aiLoading, aiOutput, aiMode,
                   queries, settled, download, ai, call>>

FreeSlots == {i \in 1..MaxQueries : queries[i].pc = "idle"}

\* The invocation i begun for the address in the field: every invocation
\* still pending is superseded by it.
BeginQuery(i) ==
    queries' = [j \in 1..MaxQueries |->
                   IF j = i
                   THEN [pc |-> "fetching", address |-> url, step |-> 1,
                         trace |-> <<>>, superseded |-> FALSE]
                   ELSE IF queries[j].pc = "fetching"
                   THEN [queries[j] EXCEPT !.superseded = TRUE]
                   ELSE queries[j]]

\* lines 151-161 without lines 156-157: the result and the AI output stay.
fetchVideoInfoKeepingResult ==
    IF trim(url) = "" THEN UNCHANGED vars
    ELSE /\ FreeSlots # {}
         /\ BeginQuery(CHOOSE j \in FreeSlots : \A k \in FreeSlots : j <= k)
         /\ loading' = TRUE
         /\ error' = Null
         /\ settled' = NoneSettled
         /\ UNCHANGED <<url, result, aiOutput, downloading, aiLoading, aiMode,
                        download, ai, call>>

\* lines 151-161 without line 157: the AI area is left as it is.
fetchVideoInfoKeepingAiOutput ==
    IF trim(url) = "" THEN UNCHANGED vars
    ELSE /\ FreeSlots # {}
         /\ BeginQuery(CHOOSE j \in FreeSlots : \A k \in FreeSlots : j <= k)
         /\ loading' = TRUE
         /\ error' = Null
         /\ result' = Null
         /\ settled' = NoneSettled
         /\ UNCHANGED <<url, downloading, aiLoading, aiOutput, aiMode, download, ai, call>>

\* lines 151-161 with the test of line 152 made on the untrimmed address.
fetchVideoInfoWithoutTrim ==
    IF url = "" THEN UNCHANGED vars
    ELSE /\ FreeSlots # {}
         /\ BeginQuery(CHOOSE j \in FreeSlots : \A k \in FreeSlots : j <= k)
         /\ loading' = TRUE
         /\ error' = Null
         /\ result' = Null
         /\ aiOutput' = Null
         /\ settled' = NoneSettled
         /\ UNCHANGED <<url, downloading, aiLoading, aiMode, download, ai, call>>

\* lines 151-161, to the first await: the direct request is outstanding.
fetchVideoInfo ==
    IF trim(url) = "" THEN UNCHANGED vars
    ELSE /\ FreeSlots # {}
         /\ BeginQuery(CHOOSE j \in FreeSlots : \A k \in FreeSlots : j <= k)
         /\ loading' = TRUE
         /\ error' = Null
         /\ result' = Null
         /\ aiOutput' = Null
         /\ settled' = NoneSettled
         /\ UNCHANGED <<url, downloading, aiLoading, aiMode, download, ai, call>>

\* line 421-423: the button, disabled while loading or with an empty field
ClickSubmit == ~(loading \/ url = "") /\ fetchVideoInfo

\* line 409: Enter in the input field
PressEnter == fetchVideoInfo

\* line 167 reading the title only
TitleOfTitleOnly(data) ==
    OrElse(GetProp(data, "title"), Str("Downloaded Video"))

\* line 167
TitleOf(data) ==
    OrElse(GetProp(data, "title"),
      OrElse(GetProp(data, "text"),
        OrElse(GetProp(data, "caption"), Str("Downloaded Video"))))

\* line 168
ThumbnailOf(data) ==
    OrElse(GetProp(data, "thumbnail"),
      OrElse(GetProp(data, "image"), OrElse(GetProp(data, "cover"), Null)))

\* line 169
AuthorOf(data) == OrElse(GetProp(data, "author"), Str("Unknown"))

\* lines 167-185: data is what fetchWithBackups resolved with, downloadUrl
\* what findDownloadLink found in it.  The outcome is the result to set, or
\* the exception thrown: reading a property of null throws at line 167.
ExtractWith(data, downloadUrl) ==
    IF data = Null THEN [thrown |-> NullReadError("title"), result |-> Null]
    ELSE IF Truthy(downloadUrl)
    THEN [thrown |-> Null,
          result |-> Obj(<< <<"downloadUrl", downloadUrl>>,
                            <<"title", TitleOf(data)>>,
                            <<"thumbnail", ThumbnailOf(data)>>,
                            <<"author", AuthorOf(data)>>,
                            <<"source", data>> >>)]
    ELSE [thrown |-> Err("Error", ExtractionFailureMessage), result |-> Null]

\* lines 166-185
Extract(data) == ExtractWith(data, findDownloadLink(data))

\* err.message || "An unexpected error occurred. Please check the URL."
ShownMessage(err) == IF err.message # "" THEN err.message ELSE UnexpectedMessage

\* What the try block of lines 159-186 comes to, given how fetchWithBackups
\* settled.
TryBlock(fetched) ==
    IF fetched.kind = "resolved" THEN Extract(fetched.v)
    ELSE [thrown |-> fetched.v, result |-> Null]

\* lines 171-192 guarded: an invocation that a later query superseded ends
\* without writing what it came to.
FinishUnlessSuperseded(i, trace, fetched, x) ==
    /\ queries' = [queries EXCEPT ![i] = IdleQuery]
    /\ settled' = [address |-> queries[i].address, trace |-> trace,
                   fetched |-> fetched, superseded |-> queries[i].superseded]
    /\ IF queries[i].superseded
       THEN result' = result /\ error' = error
       ELSE IF x.thrown = Null
       THEN result' = x.result /\ error' = error
       ELSE error' = Str(ShownMessage(x.thrown)) /\ result' = result
    /\ loading' = FALSE
    /\ UNCHANGED <<url, downloading, aiLoading, aiOutput, aiMode, download, ai, call>>

\* lines 171-192: setResult or setError, then setLoading(false).
Finish(i, trace, fetched, x) ==
    /\ queries' = [queries EXCEPT ![i] = IdleQuery]
    /\ settled' = [address |-> queries[i].address, trace |-> trace,
                   fetched |-> fetched, superseded |-> queries[i].superseded]
    /\ IF x.thrown = Null
       THEN result' = x.result /\ error' = error
       ELSE error' = Str(ShownMessage(x.thrown)) /\ result' = result
    /\ loading' = FALSE
    /\ UNCHANGED <<url, downloading, aiLoading, aiOutput, aiMode, download, ai, call>>

\* lines 161-192 from the settling of fetchWithBackups on.
Settle(i, trace, fetched) == Finish(i, trace, fetched, TryBlock(fetched))

\* line 148, reached when the last block fell through; `trace` is what the
\* blocks did.
ErrorLeakingLastFault(trace) ==
    IF trace[Len(trace)].caught # Null THEN trace[Len(trace)].caught
    ELSE Err("Error", FetchFailureMessage)

ThrownWhenExhausted(trace) == Err("Error", FetchFailureMessage)

\* How fetchWithBackups settles after a block that returned, let an
\* exception out, or was the last one to fall through.
Fetched(a, trace) ==
    IF a.returned THEN Resolved(a.v)
    ELSE IF a.escaped # Null THEN Rejected(a.escaped)
    ELSE Rejected(ThrownWhenExhausted(trace))

\* The block at queries[i].step came to `a`.
Proceed(i, a, trace) ==
    IF ~a.returned /\ a.escaped = Null /\ queries[i].step < Len(Strategies)
    THEN /\ queries' = [queries EXCEPT ![i].step = @ + 1, ![i].trace = trace]
         /\ UNCHANGED <<reactState, settled, download, ai, call>>
    ELSE Settle(i, trace, Fetched(a, trace))

Record(i, strategy, r, a) ==
    Proceed(i, a, Append(queries[i].trace,
                         [strategy |-> strategy, response |-> r,
                          returned |-> a.returned, parsed |-> a.parsed,
                          caught |-> a.caught]))

\* The request of the block at queries[i].step settles with r.
Responds(i, strategy, r) ==
    /\ queries[i].pc = "fetching"
    /\ Strategies[queries[i].step] = strategy
    /\ Record(i, strategy, r, Try(strategy, r))

\* lines 108-117
DirectResponds(i, r) ==
    /\ queries[i].pc = "fetching"
    /\ Responds(i, "direct", r)

\* lines 122-128
ProxyAResponds(i, r) ==
    /\ queries[i].pc = "fetching"
    /\ Responds(i, "proxyA", r)

\* lines 133-146
ProxyBResponds(i, r) ==
    /\ queries[i].pc = "fetching"
    /\ Responds(i, "proxyB", r)

(***************************************************************************)
(* handleDownload (lines 264-327) and triggerBrowserDownload (253-261)     *)
(*                                                                         *)
(* `download` is the invocation:                                           *)
(*   pc           "idle" | "direct" | "proxy" | "done": which request is   *)
(*                outstanding                                              *)
(*   fileUrl, fileName   the arguments                                     *)
(*   safeFileName the name computed at line 273, used at line 281          *)
(*   log          what the invocation did to the network and the document  *)
(*   raised       the exception that left the invocation, Null when none   *)
(***************************************************************************)
MaxBaseLength == 50

SuffixRange == 10000

\* Math.random() is a multiple of 1/RandomGrain in [0, 1).
RandomGrain == 20000

RandomSamples == {0, 1, RandomGrain \div 2, RandomGrain - 1}

IllegalChars == {"/", "\\", ":", "*", "?", "\"", "<", ">", "|"}

\* .replace(/[\/\\:*?"<>|]/g, '')
StripIllegal(s) == MapChars(s, [c \in IllegalChars |-> ""])

substring0(s, n) == SubSeq(s, 1, IF Len(s) < n THEN Len(s) ELSE n)

\* .trim().substring(0, 50): the two calls in the other order
BaseNameTrimFirst(sanitizedName) ==
    OrElse(Str(substring0(trim(sanitizedName), MaxBaseLength)), Str("video")).s

\* sanitizedName.substring(0, 50).trim() || 'video'
BaseName(sanitizedName) ==
    OrElse(Str(trim(substring0(sanitizedName, MaxBaseLength))), Str("video")).s

\* Math.floor(Math.random() * 10000), for Math.random() = rnd / RandomGrain
UniqueSuffix(rnd) == (rnd * SuffixRange) \div RandomGrain

\* `${baseName}_${uniqueSuffix}.mp4`
SafeFileName(baseName, uniqueSuffix) == baseName \o "_" \o DigitsOf(uniqueSuffix) \o ".mp4"

\* (fileName || 'video'), the receiver of .replace
NameOrVideo(fileName) == OrElse(fileName, Str("video"))

\* lines 268-273 (and 297-300, 312-315): the name, or the TypeError of
\* calling .replace on a value that is no string.
NameFor(receiver, rnd) ==
    IF IsString(receiver)
    THEN [thrown |-> Null,
          name |-> SafeFileName(BaseName(StripIllegal(receiver.s)), UniqueSuffix(rnd))]
    ELSE [thrown |-> Err("TypeError", "(fileName || \"video\").replace is not a function"),
          name |-> ""]

ComputeName(fileName, rnd) == NameFor(NameOrVideo(fileName), rnd)

IdleDownload ==
    [pc |-> "idle", fileUrl |-> Null, fileName |-> Null, safeFileName |-> "",
     log |-> <<>>, raised |-> Null]

Ev(ev, via, name) == [ev |-> ev, via |-> via, name |-> name]

\* lines 253-261, after window.URL.createObjectURL: the link is clicked and
\* the object URL revoked.
SaveBlob(via, name) ==
    << Ev("createObjectURL", via, ""), Ev("click", via, name),
       Ev("revokeObjectURL", via, "") >>

\* lines 324-326 with a failure notice: a download that did not save a
\* retrieved file reports it in the page's error banner.
EndDownloadShowingError(log, raised) ==
    /\ download' = [download EXCEPT !.pc = "done", !.log = log, !.raised = raised]
    /\ downloading' = FALSE
    /\ error' = IF raised # Null \/ log[Len(log)].via = "newtab"
                THEN Str("Download failed.")
                ELSE error
    /\ UNCHANGED <<url, loading, result, aiLoading, aiOutput, aiMode,
                   queries, settled, ai, call>>

\* The invocation ends: the finally block of lines 324-326.
EndDownload(log, raised) ==
    /\ download' = [download EXCEPT !.pc = "done", !.log = log, !.raised = raised]
    /\ downloading' = FALSE
    /\ UNCHANGED <<url, loading, error, result, aiLoading, aiOutput, aiMode,
                   queries, settled, ai, call>>

\* lines 289-290: the proxy request goes out.
AwaitProxy(log) ==
    /\ download' = [download EXCEPT !.pc = "proxy",
                                    !.log = Append(log, Ev("fetch", "proxy", ""))]
    /\ UNCHANGED <<url, loading, error, result, downloading, aiLoading, aiOutput,
                   aiMode, queries, settled, ai, call>>

\* lines 264-276, to the first await; n is the name computed at 268-273.
StartDownload(fileUrl, fileName, n) ==
    /\ downloading' = TRUE
    /\ download' =
         IF n.thrown = Null
         THEN [pc |-> "direct", fileUrl |-> fileUrl, fileName |-> fileName,
               safeFileName |-> n.name, log |-> << Ev("fetch", "direct", "") >>,
               raised |-> Null]
         ELSE [pc |-> "proxy", fileUrl |-> fileUrl, fileName |-> fileName,
               safeFileName |-> "", log |-> << Ev("fetch", "proxy", "") >>,
               raised |-> Null]
    /\ UNCHANGED <<url, loading, error, result, aiLoading, aiOutput, aiMode,
                   queries, settled, ai, call>>

handleDownload(fileUrl, fileName, rnd) ==
    StartDownload(fileUrl, fileName, ComputeName(fileName, rnd))

\* line 490: the button, shown with a result and disabled while downloading
ClickDownload(rnd) ==
    /\ result # Null
    /\ ~downloading
    /\ handleDownload(GetProp(result, "downloadUrl"), GetProp(result, "title"), rnd)

\* What a binary retrieval settles with: the fetch rejects, the status is
\* no success, reading the body fails, or the blob arrives.
BlobOutcomes == {"fault", "status", "body", "blob"}

\* lines 276-290 with the proxy strategy run after the direct one whatever
\* that came to.
DirectBlobSettlesThenProxy(outcome) ==
    /\ download.pc = "direct"
    /\ IF outcome = "blob"
       THEN AwaitProxy(Append(download.log, Ev("response", "direct", outcome))
                           \o SaveBlob("direct", download.safeFileName))
       ELSE AwaitProxy(Append(download.log, Ev("response", "direct", outcome)))

\* lines 276-284
DirectBlobSettles(outcome) ==
    /\ download.pc = "direct"
    /\ IF outcome = "blob"
       THEN EndDownload(Append(download.log, Ev("response", "direct", outcome))
                            \o SaveBlob("direct", download.safeFileName), Null)
       ELSE AwaitProxy(Append(download.log, Ev("response", "direct", outcome)))

\* lines 307-321; n is the name computed at 312-315.
NewTab(log, n) ==
    IF n.thrown = Null
    THEN EndDownload(Append(log, Ev("click", "newtab", n.name)), Null)
    ELSE EndDownload(log, n.thrown)

\* lines 294-302 once the blob is there; n is the name computed at 297-300,
\* m the one the fallback computes if that throws.
ProxySave(log, n, m) ==
    IF n.thrown = Null
    THEN EndDownload(log \o SaveBlob("proxy", n.name), Null)
    ELSE NewTab(Append(log, Ev("createObjectURL", "proxy", "")), m)

\* lines 290-322
ProxyBlobSettles(outcome, rnd) ==
    /\ download.pc = "proxy"
    /\ IF outcome = "blob"
       THEN ProxySave(Append(download.log, Ev("response", "proxy", outcome)),
                      ComputeName(download.fileName, rnd),
                      ComputeName(download.fileName, rnd))
       ELSE NewTab(Append(download.log, Ev("response", "proxy", outcome)),
                   ComputeName(download.fileName, rnd))

(***************************************************************************)
(* generateAIContent (lines 196-250)                                       *)
(*                                                                         *)
(* `ai` is the invocation: pc "idle" | "fetching" | "done", the mode it    *)
(* was called with, and the network requests it issued.  The credential    *)
(* of line 204 is the empty string, so the invocation throws at line 215   *)
(* before its first await and runs to its finally block in one step; the   *)
(* request of line 218 is never issued and its responses are not           *)
(* modelled.                                                               *)
(***************************************************************************)
apiKey == ""

AIFailureMessage ==
    "AI feature requires a valid API Key in src/App.jsx code. Please add it to use this feature."

IdleAI == [pc |-> "idle", mode |-> Null, requests |-> <<>>]

\* lines 206-226, to the first await: the exception thrown, or the request
\* issued.
AIRequest ==
    IF apiKey = ""
    THEN [thrown |-> Err("Error", "API Key is missing in the code."), requests |-> <<>>]
    ELSE [thrown |-> Null, requests |-> << "generateContent" >>]

\* lines 199-201 and 244-249; x is what the try block came to.
AIRun(mode, x) ==
    /\ aiMode' = Str(mode)
    /\ IF x.thrown # Null
       THEN /\ aiOutput' = Str(AIFailureMessage)
            /\ aiLoading' = FALSE
            /\ ai' = [pc |-> "done", mode |-> Str(mode), requests |-> x.requests]
       ELSE /\ aiOutput' = Null
            /\ aiLoading' = TRUE
            /\ ai' = [pc |-> "fetching", mode |-> Str(mode), requests |-> x.requests]
    /\ UNCHANGED <<url, loading, error, result, downloading, queries, settled,
                   download, call>>

\* lines 244-246 reporting through the page's error banner as well.
generateAIContentShowingError(mode) ==
    IF ~Truthy(result)
    THEN UNCHANGED vars
    ELSE /\ aiMode' = Str(mode)
         /\ aiOutput' = Str(AIFailureMessage)
         /\ aiLoading' = FALSE
         /\ error' = Str(AIFailureMessage)
         /\ ai' = [pc |-> "done", mode |-> Str(mode), requests |-> <<>>]
         /\ UNCHANGED <<url, loading, result, downloading, queries, settled,
                        download, call>>

generateAIContent(mode) ==
    IF ~Truthy(result) THEN UNCHANGED vars ELSE AIRun(mode, AIRequest)

\* lines 513-515: the caption button, shown with a result
ClickCaption ==
    /\ result # Null
    /\ ~aiLoading
    /\ generateAIContent("caption")

\* lines 521-523: the ideas button
ClickIdeas ==
    /\ result # Null
    /\ ~aiLoading
    /\ generateAIContent("ideas")

(***************************************************************************)
(* One invocation of a pure helper: `call` holds the argument and, once    *)
(* the helper has run, what it returned.                                   *)
(***************************************************************************)
NoCall == [fn |-> "none", arg |-> Null, ret |-> Undefined, pc |-> "idle"]

CallIsVideoUrl ==
    /\ call.fn = "isVideoUrl" /\ call.pc = "called"
    /\ call' = [call EXCEPT !.ret = Bool(isVideoUrl(call.arg)), !.pc = "returned"]
    /\ UNCHANGED <<reactState, queries, settled, download, ai>>

CallFindDownloadLink ==
    /\ call.fn = "findDownloadLink" /\ call.pc = "called"
    /\ call' = [call EXCEPT !.ret = findDownloadLink(call.arg), !.pc = "returned"]
    /\ UNCHANGED <<reactState, queries, settled, download, ai>>

(***************************************************************************)
(* The arguments the helpers are tried on                                  *)
(***************************************************************************)
MaxEntries == 3

UrlPrefixes == {"http://", "https://", "http", "HTTP://", "Https://", "ftp://", "", "//", "xhttp://"}

UrlMiddles == {"", "x/a"}

UrlSuffixes ==
    {"." \o x : x \in ImageExtensions}
        \cup {".JPG", ".Jpeg", ".PNG", ".WebP", ".GIF", ".sVg", ".BMP", ".TIFF"}
        \cup {"", ".mp4", ".jpg?x=1", "jpg", ".jpgx", ".jpg/", ".tif", ".jpe"}

SampleStrings == {p \o m \o s : p \in UrlPrefixes, m \in UrlMiddles, s \in UrlSuffixes}

NonStrings == {Null, Undefined, Num(0), Num(7), Bool(TRUE), Obj(<<>>),
               Arr1(Str("https://x/a.mp4"))}

VideoUrlArgs == {Str(s) : s \in SampleStrings} \cup NonStrings

\* The properties a sample document is built from.  Every candidate string
\* is distinct, so a returned string tells where it was found.
EntryPool ==
    { <<"hd", Str("https://x/hd.mp4")>>,
      <<"hd", Str("https://x/hd.jpg")>>,
      <<"sd", Str("https://x/sd.mp4")>>,
      <<"download", Str("ftp://x/download.mp4")>>,
      <<"download", Str("https://x/download.mp4")>>,
      <<"url", Str("https://x/url.mp4")>>,
      <<"src", Str("https://x/src.PNG")>>,
      <<"link", Str("https://x/link.mp4")>>,
      <<"thumbnail", Obj(<< <<"url", Str("https://x/thumb-url.mp4")>> >>)>>,
      <<"Author", Str("https://evil/Author.mp4")>>,
      <<"play", Str("https://cdn/v.mp4")>>,
      <<"video", Obj(<< <<"author", Str("https://evil/a.mp4")>> >>)>>,
      <<"data", Obj(<< <<"cover", Str("https://evil/cover.mp4")>>,
                       <<"hd", Str("https://x/data-hd.mp4")>> >>)>>,
      <<"items", Arr2(Num(0), Obj(<< <<"link", Str("https://x/items-1-link.mp4")>> >>))>> }

DistinctKeys(e) == \A i, j \in 1..Len(e) : i # j => e[i][1] # e[j][1]

SampleObjects ==
    { Obj(e) : e \in { f \in UNION { [1..n -> EntryPool] : n \in 0..MaxEntries } :
                          DistinctKeys(f) } }

SampleDocs ==
    SampleObjects \cup {Null, Num(0), Num(7), Bool(FALSE), Str(""), Str("abc"),
                        Str("https://x/bare.mp4"), Str("https://x/bare.gif")}

\* What the input field is set to.
Addresses == {"", "  ", "https://tiktok.com/@a/video/123", "not a url"}

\* Response bodies: JSON texts of degenerate documents, of documents with
\* and without a candidate, and texts that are no JSON.
GoodBody == "{\"play\":\"https://cdn/v.mp4\",\"title\":\"Cool\",\"author\":\"a\"}"

JsonBodies ==
    { "null", "7", "\"abc\"", "{}", GoodBody,
      "{\"hd\":\"https://x/a.mp4\",\"title\":123}",
      "{\"thumbnail\":\"https://x/a.jpg\",\"title\":\"Pic\"}",
      "{\"sd\":\"https://x/s.mp4\",\"text\":\"T\",\"caption\":\"C\"}",
      "{\"url\":\"https://x/u.mp4\",\"title\":\"\",\"caption\":\"C\",\"author\":\"\"}",
      "\"https://x/bare.mp4\"" }

JunkBodies == {"<html>", "not valid json"}

SampleBodies == JsonBodies \cup JunkBodies

ContentTypes ==
    {Null, Str("text/html"), Str("application/json"),
     Str("application/json; charset=utf-8")}

JsonEscape(s) == MapChars(s, [c \in {"\"", "\\"} |-> "\\" \o c])

\* What proxy B answers for a target whose raw body is `raw`.
Envelope(raw) == "{\"contents\":\"" \o JsonEscape(raw) \o "\"}"

DirectResponses ==
    {Fault, Http(FALSE, Str("application/json"), GoodBody)}
        \cup {Http(TRUE, ct, b) : ct \in ContentTypes, b \in SampleBodies}

ProxyAResponses ==
    {Fault, Http(FALSE, Str("application/json"), GoodBody)}
        \cup {Http(TRUE, Null, b) : b \in SampleBodies}

OddEnvelopes ==
    {"{}", "null", "7", "{\"contents\":\"\"}", "{\"contents\":null}",
     "{\"contents\":5}", "{\"contents\":{}}", "{\"status\":{}}", "not valid json"}

ProxyBResponses ==
    {Fault, Http(FALSE, Str("application/json"), Envelope(GoodBody))}
        \cup {Http(TRUE, Str("application/json"), Envelope(b)) : b \in SampleBodies}
        \cup {Http(TRUE, Str("application/json"), e) : e \in OddEnvelopes}

\* c repeated n times
RECURSIVE Repeat(_, _)
Repeat(c, n) ==
    IF n <= 0 THEN "" ELSE IF n = 1 THEN c
    ELSE Repeat(c, n \div 2) \o Repeat(c, n - (n \div 2))

\* Titles a document can carry: any truthy JSON value that React can render
\* (line 484 renders result.title; an object there fails the render).
DownloadTitles ==
    { Str("My/Video:Clip*Name?"), Str("Cool"), Str("   "), Str("/\\:*?\"<>|"),
      Str(" a/b "),
      Str(Repeat("a", MaxBaseLength - 1) \o " b"),
      Str(Repeat("a", MaxBaseLength) \o "b"),
      Str("  " \o Repeat("a", MaxBaseLength)),
      Str(Repeat("a/", MaxBaseLength)),
      Str(Repeat("a", MaxBaseLength - 2) \o "  cd"),
      Num(123), Bool(TRUE) }

(***************************************************************************)
(* Specifications.  Spec is the whole page from its construction;          *)
(* SpecHelpers runs one call of a pure helper on a sample argument;        *)
(* SpecQuery runs queries by the button against the full set of sample     *)
(* responses; SpecDownload runs a query and then downloads of its result,  *)
(* over the sample titles.                                                 *)
(***************************************************************************)
\* lines 30-39: the state after construction
InitReact ==
    /\ url = ""
    /\ loading = FALSE
    /\ error = Null
    /\ result = Null
    /\ downloading = FALSE
    /\ aiLoading = FALSE
    /\ aiOutput = Null
    /\ aiMode = Null

InitHelpers ==
    /\ InitReact
    /\ queries = [i \in 1..MaxQueries |-> IdleQuery]
    /\ settled = NoneSettled
    /\ download = IdleDownload
    /\ ai = IdleAI
    /\ \/ \E v \in VideoUrlArgs :
            call = [fn |-> "isVideoUrl", arg |-> v, ret |-> Undefined, pc |-> "called"]
       \/ \E d \in SampleDocs :
            call = [fn |-> "findDownloadLink", arg |-> d, ret |-> Undefined, pc |-> "called"]

NextHelpers ==
    \/ CallIsVideoUrl
    \/ CallFindDownloadLink

SpecHelpers == InitHelpers /\ [][NextHelpers]_vars

\* Queries submitted with the button: one at a time.
NextQuery ==
    \/ \E a \in Addresses : handleInputChange(a)
    \/ ClickSubmit
    \/ \E i \in 1..MaxQueries, r \in DirectResponses : DirectResponds(i, r)
    \/ \E i \in 1..MaxQueries, r \in ProxyAResponses : ProxyAResponds(i, r)
    \/ \E i \in 1..MaxQueries, r \in ProxyBResponses : ProxyBResponds(i, r)

\* The JSON text of a title.
JsonOf(v) == IF IsString(v) THEN "\"" \o JsonEscape(v.s) \o "\"" ELSE StringOf(v)

TitleBodies ==
    { "{\"hd\":\"https://x/a.mp4\",\"title\":" \o JsonOf(t) \o "}" : t \in DownloadTitles }
        \cup { "{\"hd\":\"https://x/a.mp4\"}" }

DownloadDirectResponses ==
    {Fault} \cup {Http(TRUE, Str("application/json"), b) : b \in TitleBodies}

DownloadProxyAResponses == {Fault, Http(TRUE, Null, GoodBody)}

DownloadProxyBResponses == {Fault}

\* A query by the button, then downloads of its result.
NextDownload ==
    \/ handleInputChange("https://tiktok.com/@a/video/123")
    \/ ClickSubmit
    \/ \E i \in 1..MaxQueries, r \in DownloadDirectResponses : DirectResponds(i, r)
    \/ \E i \in 1..MaxQueries, r \in DownloadProxyAResponses : ProxyAResponds(i, r)
    \/ \E i \in 1..MaxQueries, r \in DownloadProxyBResponses : ProxyBResponds(i, r)
    \/ \E rnd \in RandomSamples : ClickDownload(rnd)
    \/ \E o \in BlobOutcomes : DirectBlobSettles(o)
    \/ \E o \in BlobOutcomes, rnd \in RandomSamples : ProxyBlobSettles(o, rnd)

(***************************************************************************)
(* The whole page, from its construction: queries by button and by Enter,  *)
(* edits of the input field, and downloads of the current result.          *)
(***************************************************************************)
\* line 413: the clear button, shown when the field is not empty
ClearUrl ==
    /\ url # ""
    /\ url' = ""
    /\ UNCHANGED <<loading, error, result, downloading, aiLoading, aiOutput,
                   aiMode, queries, settled, download, ai, call>>

\* lines 49-56, once the clipboard has been read
handlePaste(text) ==
    /\ url' = text
    /\ UNCHANGED <<loading, error, result, downloading, aiLoading, aiOutput,
                   aiMode, queries, settled, download, ai, call>>

PageAddresses == {"", " ", "not a url"}

NumberTitleBody == "{\"hd\":\"https://x/a.mp4\",\"title\":123}"

PageDirectResponses ==
    { Fault,
      Http(TRUE, Str("application/json"), NumberTitleBody),
      Http(TRUE, Str("application/json"), "{}") }

PageProxyAResponses == { Fault, Http(TRUE, Null, GoodBody) }

PageProxyBResponses ==
    { Fault, Http(TRUE, Str("application/json"), Envelope(GoodBody)) }

PageRandomSamples == {RandomGrain - 1}

PageBlobOutcomes == {"fault", "blob"}

Init ==
    /\ InitReact
    /\ queries = [i \in 1..MaxQueries |-> IdleQuery]
    /\ settled = NoneSettled
    /\ download = IdleDownload
    /\ ai = IdleAI
    /\ call = NoCall

\* line 408: onChange is called when the field's text has changed.
TypeAddress(text) == text # url /\ handleInputChange(text)

Next ==
    \/ \E a \in PageAddresses : TypeAddress(a)
    \/ \E a \in PageAddresses : handlePaste(a)
    \/ ClearUrl
    \/ ClickSubmit
    \/ PressEnter
    \/ \E i \in 1..MaxQueries, r \in PageDirectResponses : DirectResponds(i, r)
    \/ \E i \in 1..MaxQueries, r \in PageProxyAResponses : ProxyAResponds(i, r)
    \/ \E i \in 1..MaxQueries, r \in PageProxyBResponses : ProxyBResponds(i, r)
    \/ \E rnd \in PageRandomSamples : ClickDownload(rnd)
    \/ \E o \in PageBlobOutcomes : DirectBlobSettles(o)
    \/ \E o \in PageBlobOutcomes, rnd \in PageRandomSamples : ProxyBlobSettles(o, rnd)
    \/ ClickCaption
    \/ ClickIdeas

Spec == Init /\ [][Next]_vars

SpecDownload == Init /\ [][NextDownload]_vars

SpecQuery == Init /\ [][NextQuery]_vars


(***************************************************************************)
(* fetchWithBackups: the properties of its runs                            *)
(***************************************************************************)
\* The runs of fetchWithBackups the state tells of: those in progress and
\* the one that settled last.
RunsInProgress == {queries[i].trace : i \in {j \in 1..MaxQueries : queries[j].pc = "fetching"}}

ClaimedOrder == <<"direct", "proxyA", "proxyB">>

\* The entries of a trace name the strategies in the claimed order, and none
\* but the last has returned.
InClaimedOrder(trace) ==
    /\ Len(trace) <= Len(ClaimedOrder)
    /\ \A k \in 1..Len(trace) :
          /\ trace[k].strategy = ClaimedOrder[k]
          /\ k < Len(trace) => ~trace[k].returned

\* The document a response carries: its body parsed, or for proxy B the
\* parsed text of the envelope's contents field.
DocumentOf(entry) ==
    IF entry.strategy = "proxyB"
    THEN JSONParse(StringOf(GetProp(JSONParse(entry.response.body).v, "contents"))).v
    ELSE JSONParse(entry.response.body).v

\* An entry failed the way the claim lists: transport fault, non-success
\* status, a body that is not read, or a body that does not parse.
Failed(entry) == ~entry.returned

\* C1: fetchWithBackups tries direct, proxy A, proxy B in that order; it
\* returns the document of the first strategy that succeeds and attempts no
\* later one; it raises only after all three were attempted and failed.
C1_StrategyOrder ==
    /\ \A trace \in RunsInProgress :
          /\ InClaimedOrder(trace)
          /\ Len(trace) < Len(ClaimedOrder)
          /\ \A k \in 1..Len(trace) : Failed(trace[k])
    /\ \A i \in 1..MaxQueries :
          queries[i].pc = "fetching" =>
              /\ queries[i].step = Len(queries[i].trace) + 1
              /\ queries[i].step <= Len(ClaimedOrder)
    /\ InClaimedOrder(settled.trace)
    /\ settled.fetched.kind = "resolved" =>
          /\ Len(settled.trace) >= 1
          /\ settled.trace[Len(settled.trace)].returned
          /\ settled.fetched.v = DocumentOf(settled.trace[Len(settled.trace)])
    /\ settled.fetched.kind = "rejected" =>
          /\ Len(settled.trace) = Len(ClaimedOrder)
          /\ \A k \in 1..Len(settled.trace) : Failed(settled.trace[k])

\* Proxy A's document is returned after the direct strategy failed, and
\* proxy B is not attempted.
C1_Witness ==
    /\ settled.fetched.kind = "resolved"
    /\ Len(settled.trace) = 2
    /\ settled.trace[1].response.fault
    /\ settled.trace[2].strategy = "proxyA"
    /\ settled.fetched.v = JSONParse(GoodBody).v

\* A content type that does not indicate JSON: none, or one without the
\* JSON media type in it.
NotJsonType(contentType) ==
    contentType = Null \/ ~includes(contentType.s, "application/json")

DirectSucceededWithoutJsonType(trace) ==
    /\ Len(trace) >= 1
    /\ trace[1].strategy = "direct"
    /\ ~trace[1].response.fault
    /\ trace[1].response.ok
    /\ NotJsonType(trace[1].response.contentType)

\* C2: a direct response with a success status and a content type that
\* does not indicate JSON is never parsed, counts as failed, and the fetcher
\* goes on to proxy A.
C2_NonJsonDirectNotParsed ==
    /\ \A i \in 1..MaxQueries :
          (queries[i].pc = "fetching" /\ DirectSucceededWithoutJsonType(queries[i].trace)) =>
              /\ ~queries[i].trace[1].parsed
              /\ ~queries[i].trace[1].returned
              /\ IF Len(queries[i].trace) = 1
                 THEN ClaimedOrder[queries[i].step] = "proxyA"
                 ELSE queries[i].trace[2].strategy = "proxyA"
    /\ DirectSucceededWithoutJsonType(settled.trace) =>
          /\ ~settled.trace[1].parsed
          /\ ~settled.trace[1].returned
          /\ Len(settled.trace) >= 2
          /\ settled.trace[2].strategy = "proxyA"

\* The direct response is a 200 text/html whose body would parse, and the
\* request to proxy A is outstanding.
C2_Witness ==
    \E i \in 1..MaxQueries :
        /\ queries[i].pc = "fetching"
        /\ queries[i].trace = << [strategy |-> "direct",
                                  response |-> Http(TRUE, Str("text/html"), GoodBody),
                                  returned |-> FALSE, parsed |-> FALSE,
                                  caught |-> Null] >>
        /\ queries[i].step = 2

\* Proxy B answered with a success status and an envelope whose contents
\* field is missing or is text that does not parse.
BadContents(response) ==
    /\ ~response.fault
    /\ response.ok
    /\ JSONParse(response.body).ok
    /\ \/ ~Truthy(GetProp(JSONParse(response.body).v, "contents"))
       \/ ~JSONParse(StringOf(GetProp(JSONParse(response.body).v, "contents"))).ok

\* C3: an envelope of proxy B whose contents is missing or unparseable is a
\* failure of proxy B only: no parse fault leaves the fetcher, the caller
\* sees FetchFailure, after all three strategies.
C3_BadEnvelopeIsFetchFailure ==
    (/\ Len(settled.trace) = Len(ClaimedOrder)
     /\ settled.trace[Len(ClaimedOrder)].strategy = "proxyB"
     /\ BadContents(settled.trace[Len(ClaimedOrder)].response)) =>
        /\ ~settled.trace[Len(ClaimedOrder)].returned
        /\ settled.fetched.kind = "rejected"
        /\ settled.fetched.v.name = "Error"
        /\ settled.fetched.v.message = FetchFailureMessage
        /\ error = Null \/ error = Str(FetchFailureMessage)

\* Proxy B answered { contents: "not valid json" }.
C3_Witness ==
    /\ Len(settled.trace) = 3
    /\ settled.trace[3].response =
          Http(TRUE, Str("application/json"), "{\"contents\":\"not valid json\"}")
    /\ settled.trace[3].caught = SyntaxError
    /\ settled.fetched.kind = "rejected"
    /\ error = Str(FetchFailureMessage)

\* What a failure tells of: the error value, which is all the caller gets.
ObservedFailure == settled.fetched.v

\* C4: every failure of fetchWithBackups is one and the same error value,
\* whatever made each strategy fail.
C4_UniformFailure ==
    settled.fetched.kind = "rejected" =>
        ObservedFailure = Err("Error", FetchFailureMessage)

\* All three failed, each for another cause: a transport fault, a body that
\* does not parse, a non-success status.
C4_Witness ==
    /\ settled.fetched.kind = "rejected"
    /\ settled.trace[1].caught = TransportError
    /\ settled.trace[2].caught = SyntaxError
    /\ ~settled.trace[3].response.fault
    /\ ~settled.trace[3].response.ok
    /\ ObservedFailure = Err("Error", FetchFailureMessage)

(***************************************************************************)
(* findDownloadLink and isVideoUrl: the properties of one call             *)
(***************************************************************************)
Returned(fn) == call.fn = fn /\ call.pc = "returned"

ClaimedPriority == <<"hd", "sd", "mp4", "video", "stream", "download_url", "download">>

\* The places in the claimed order whose key holds, in the mapping, a
\* string that passes the candidate test.
PriorityHits(obj) ==
    {k \in 1..Len(ClaimedPriority) :
        /\ IsString(GetProp(obj, ClaimedPriority[k]))
        /\ isVideoUrl(GetProp(obj, ClaimedPriority[k]))}

\* C5: when a priority key of the mapping holds a string that passes the
\* candidate test, findDownloadLink returns the value of the earliest such
\* key in the order hd, sd, mp4, video, stream, download_url, download,
\* whatever else the mapping holds and in whatever order it is iterated.
C5_EarliestPriorityKeyWins ==
    (Returned("findDownloadLink") /\ IsObject(call.arg) /\ PriorityHits(call.arg) # {}) =>
        call.ret = GetProp(call.arg, ClaimedPriority[Min(PriorityHits(call.arg))])

\* A mapping iterated with url first, then sd, then hd last, each holding a
\* string that passes: the value of hd is returned.
C5_Witness ==
    /\ Returned("findDownloadLink")
    /\ IsObject(call.arg)
    /\ Len(call.arg.e) = MaxEntries
    /\ call.arg.e[1] = <<"url", Str("https://x/url.mp4")>>
    /\ call.arg.e[MaxEntries - 1] = <<"sd", Str("https://x/sd.mp4")>>
    /\ call.arg.e[MaxEntries] = <<"hd", Str("https://x/hd.mp4")>>
    /\ call.ret = Str("https://x/hd.mp4")

ClaimedExcluded == {"thumbnail", "image", "cover", "poster", "avatars", "author"}

\* The strings of a document that can be reached without passing through a
\* key whose lowercase name is excluded.
RECURSIVE ReachableStrings(_)
ReachableStrings(v) ==
    IF IsString(v) THEN {v}
    ELSE IF IsObject(v)
    THEN UNION { ReachableStrings(v.e[i][2]) :
                   i \in {j \in 1..Len(v.e) : toLowerCase(v.e[j][1]) \notin ClaimedExcluded} }
    ELSE {}

\* C6: at every depth, findDownloadLink never descends into the value of a
\* key whose lowercase name is thumbnail, image, cover, poster, avatars or
\* author: what it returns is never a string reachable only through one.
C6_ExcludedKeysNeverDescended ==
    Returned("findDownloadLink") =>
        \/ call.ret = Null
        \/ call.ret \in ReachableStrings(call.arg)

\* { video: { author: "https://evil/a.mp4" } }: nothing is returned, though
\* the string under author passes the candidate test.
C6_Witness ==
    /\ Returned("findDownloadLink")
    /\ call.arg = Obj(<< <<"video", Obj(<< <<"author", Str("https://evil/a.mp4")>> >>)>> >>)
    /\ isVideoUrl(Str("https://evil/a.mp4"))
    /\ call.ret = Null

ClaimedImageSuffixes == {".jpg", ".jpeg", ".png", ".webp", ".gif", ".svg", ".bmp", ".tiff"}

\* s ends in suffix, letter case aside.
EndsWithAnyCase(s, suffix) ==
    /\ Len(s) >= Len(suffix)
    /\ toLowerCase(SubSeq(s, Len(s) - Len(suffix) + 1, Len(s))) = suffix

EndsInImageSuffix(s) == \E x \in ClaimedImageSuffixes : EndsWithAnyCase(s, x)

\* The prefix that HTTP and HTTPS addresses share.
HasHttpPrefix(s) == Len(s) >= 4 /\ SubSeq(s, 1, 4) = "http"

Ends(i) == queries[i].pc = "fetching" /\ queries'[i].pc = "idle"

\* C8: for every document a successful metadata fetch returns, null, a
\* number, a bare string and an empty mapping included, in which the
\* extractor finds no candidate, fetchVideoInfo ends with result null and
\* error set to the ExtractionFailure message, which is not the
\* FetchFailure message.
C8_NoCandidateIsExtractionFailure ==
    [][\A i \in 1..MaxQueries :
          (/\ Ends(i)
           /\ settled'.fetched.kind = "resolved"
           /\ findDownloadLink(settled'.fetched.v) = Null) =>
              /\ result' = Null
              /\ error' = Str(ExtractionFailureMessage)
              /\ ExtractionFailureMessage # FetchFailureMessage]_vars

(***************************************************************************)
(* handleDownload: the filename and the way an invocation ends             *)
(***************************************************************************)
ClaimedIllegal == {"/", "\\", ":", "*", "?", "\"", "<", ">", "|"}

ClaimedPlaceholder == "video"

\* The base the claim describes: illegal characters removed, then the first
\* 50 characters, then trimmed, or the placeholder when nothing is left.
ClaimedBase(name) ==
    IF trim(substring0(StripIllegal(name), MaxBaseLength)) = ""
    THEN ClaimedPlaceholder
    ELSE trim(substring0(StripIllegal(name), MaxBaseLength))

\* d is the decimal numeral of an integer from 0 to 9999.
IsSuffixNumeral(d) ==
    /\ Len(d) \in 1..4
    /\ \A k \in 1..Len(d) : IsDigit(CharAt(d, k))
    /\ Len(d) > 1 => CharAt(d, 1) # "0"

\* fileName is <base>_<n>.mp4 with 0 <= n <= 9999.
HasClaimedForm(fileName, base) ==
    /\ Len(fileName) >= Len(base) + 6
    /\ SubSeq(fileName, 1, Len(base) + 1) = base \o "_"
    /\ SubSeq(fileName, Len(fileName) - 3, Len(fileName)) = ".mp4"
    /\ IsSuffixNumeral(SubSeq(fileName, Len(base) + 2, Len(fileName) - 4))

WellFormedBase(base) ==
    /\ base # ""
    /\ Len(base) <= MaxBaseLength
    /\ \A k \in 1..Len(base) : CharAt(base, k) \notin ClaimedIllegal

\* The filenames the invocation has computed: the one kept for the direct
\* retrieval and those given to a save or a new-tab action.
ComputedFileNames ==
    {download.log[k].name : k \in {j \in 1..Len(download.log) : download.log[j].ev = "click"}}
        \cup (IF download.safeFileName = "" THEN {} ELSE {download.safeFileName})

\* C9: the filename handleDownload computes for a suggested name is
\* <base>_<n>.mp4, <base> being the name with the characters / \ : * ? " < > |
\* removed, then cut to 50 characters, then trimmed, or 'video' when that is
\* empty, and 0 <= n <= 9999; <base> is never empty, never longer than 50
\* characters, and holds no illegal character.
C9_FileNameForm ==
    \A f \in ComputedFileNames :
        /\ IsString(download.fileName)
        /\ HasClaimedForm(f, ClaimedBase(download.fileName.s))
        /\ WellFormedBase(ClaimedBase(download.fileName.s))

\* The title My/Video:Clip*Name? was saved under MyVideoClipName_<n>.mp4.
C9_Witness ==
    /\ download.pc = "done"
    /\ download.fileName = Str("My/Video:Clip*Name?")
    /\ \E k \in 1..Len(download.log) :
          /\ download.log[k].ev = "click"
          /\ HasClaimedForm(download.log[k].name, "MyVideoClipName")

\* C10: handleDownload never raises to its caller: whatever the direct and
\* the proxy retrieval come to, the invocation completes normally after a
\* save or a new-tab action was initiated.
C10_DownloadNeverRaises ==
    download.pc = "done" =>
        /\ download.raised = Null
        /\ \E k \in 1..Len(download.log) : download.log[k].ev = "click"

\* The object URLs the invocation created and has not revoked: per strategy,
\* those created less those revoked.
Unrevoked(via) ==
    Cardinality({k \in 1..Len(download.log) :
                    download.log[k].via = via /\ download.log[k].ev = "createObjectURL"})
      - Cardinality({k \in 1..Len(download.log) :
                    download.log[k].via = via /\ download.log[k].ev = "revokeObjectURL"})

\* C11: every object URL handleDownload creates for a blob, in the direct
\* or in the proxy strategy, is revoked before the invocation ends, on every
\* exit path: no state after handleDownload has finished holds an unrevoked
\* object URL.
C11_ObjectUrlsRevoked ==
    download.pc = "done" => (Unrevoked("direct") = 0 /\ Unrevoked("proxy") = 0)

(***************************************************************************)
(* The page: queries, downloads and AI actions together                    *)
(***************************************************************************)
\* The step in which invocation j of fetchVideoInfo begins: its first
\* request goes out.
Starts(j) == queries[j].pc = "idle" /\ queries'[j].pc = "fetching"

\* C12: whenever fetchVideoInfo issues the first request of a new query,
\* the previous result and the previous AI output have been cleared: at the
\* moment the request begins, result = null and aiOutput = null.
C12_NewQueryClearsResult ==
    [][\A j \in 1..MaxQueries :
          Starts(j) =>
              /\ queries'[j].step = 1
              /\ queries'[j].trace = <<>>
              /\ result' = Null
              /\ aiOutput' = Null]_vars

\* A query's first request is outstanding after an earlier result was
\* downloaded and had an AI output derived from it: both are gone.
C12_Witness ==
    /\ \E j \in 1..MaxQueries :
          /\ queries[j].pc = "fetching"
          /\ queries[j].step = 1
          /\ ~queries[j].superseded
    /\ \A j \in 1..MaxQueries : queries[j].pc = "fetching" => queries[j].step = 1
    /\ settled = NoneSettled
    /\ download.pc = "done"
    /\ ai.pc = "done"
    /\ result = Null
    /\ aiOutput = Null

(***************************************************************************)
(* handleDownload: the order of its strategies                             *)
(***************************************************************************)
Log == download.log

IsEv(k, ev, via) == Log[k].ev = ev /\ Log[k].via = via

\* The retrieval answered at place k of the log failed: the fetch rejected,
\* the status was no success, or reading the body failed.
FailedRetrieval(k, via) == IsEv(k, "response", via) /\ Log[k].name # "blob"

\* The requests outstanding after the first k events of the log.
Outstanding(k) ==
    Cardinality({j \in 1..k : Log[j].ev = "fetch"})
      - Cardinality({j \in 1..k : Log[j].ev = "response"})

\* C13: handleDownload runs its strategies one after another: the proxy
\* fetch is issued only after the direct strategy's failure was observed,
\* the new-tab fallback only after the proxy strategy's failure was
\* observed, two requests are never outstanding together, and a strategy
\* that succeeded is followed by no later strategy.
C13_DownloadStrategiesSequential ==
    /\ \A k \in 1..Len(Log) :
          /\ Outstanding(k) \in {0, 1}
          /\ IsEv(k, "fetch", "direct") => k = 1
          /\ IsEv(k, "fetch", "proxy") =>
                \/ k = 1 /\ ~IsString(download.fileName)
                \/ k = 3 /\ IsEv(1, "fetch", "direct") /\ FailedRetrieval(2, "direct")
          /\ IsEv(k, "click", "newtab") =>
                /\ k = Len(Log)
                /\ FailedRetrieval(k - 1, "proxy")
          /\ (Log[k].ev = "click" /\ Log[k].via # "newtab") =>
                \A j \in (k + 1)..Len(Log) : Log[j].ev = "revokeObjectURL"
    /\ download.pc = "direct" => Outstanding(Len(Log)) = 1 /\ IsEv(Len(Log), "fetch", "direct")
    /\ download.pc = "proxy" => Outstanding(Len(Log)) = 1 /\ IsEv(Len(Log), "fetch", "proxy")
    /\ download.pc = "done" => Outstanding(Len(Log)) = 0

\* Both retrievals failed, one after the other, and the new tab was opened
\* last.
C13_Witness ==
    /\ download.pc = "done"
    /\ Len(Log) = 5
    /\ IsEv(1, "fetch", "direct")
    /\ Log[2] = Ev("response", "direct", "status")
    /\ IsEv(3, "fetch", "proxy")
    /\ Log[4] = Ev("response", "proxy", "fault")
    /\ IsEv(5, "click", "newtab")

(***************************************************************************)
(* The three handlers: how an invocation ends                              *)
(***************************************************************************)
NoQueryPending == \A i \in 1..MaxQueries : queries[i].pc = "idle"

\* C14: every started user action leaves the interface retryable: once the
\* requests of fetchVideoInfo, handleDownload and generateAIContent have
\* settled, loading, downloading and aiLoading are false again, on success
\* and on every failure path, and no error has escaped a handler.
C14_HandlersEndRetryable ==
    /\ NoQueryPending => ~loading
    /\ download.pc \in {"idle", "done"} => ~downloading
    /\ ai.pc \in {"idle", "done"} => ~aiLoading
    /\ download.raised = Null

(***************************************************************************)
(* Overlapping queries                                                     *)
(***************************************************************************)
\* Invocation i is pending before and after the step, where it was.
StillPending(i) ==
    /\ queries'[i].pc = "fetching"
    /\ queries'[i].address = queries[i].address
    /\ queries'[i].step = queries[i].step
    /\ queries'[i].trace = queries[i].trace

\* What the invocation that ends in this step came to is what is shown: its
\* result, or the message of its error.
WritesItsOutcome(x) ==
    IF x.thrown = Null THEN result' = x.result ELSE error' = Str(ShownMessage(x.thrown))

\* What the last invocation to end came to is on the page; typing in the
\* address field dismisses an error message (lines 44-47).
Shows(x) ==
    IF x.thrown = Null
    THEN result = x.result
    ELSE error \in {Str(ShownMessage(x.thrown)), Null}

AIStep == ai' # ai \/ (aiOutput' # aiOutput /\ aiOutput' # Null)

\* C16: an AI generation that fails is handled inside the AI area:
\* generateAIContent ends with aiOutput set to its inline message and
\* aiLoading false, and leaves result, error, loading and downloading as
\* they were; with the credential absent it issues no network request.
C16_AIFailureConfined ==
    [][AIStep =>
           /\ ai'.pc = "done"
           /\ aiOutput' = Str(AIFailureMessage)
           /\ aiLoading' = FALSE
           /\ (apiKey = "" => ai'.requests = <<>>)
           /\ UNCHANGED <<result, error, loading, downloading>>]_vars

\* An AI button was used on a result while a download was pending and an
\* error was shown, and the generation failed for want of the credential.
C16_Witness ==
    /\ ai.pc = "done"
    /\ ai.requests = <<>>
    /\ aiOutput = Str(AIFailureMessage)
    /\ ~aiLoading
    /\ result # Null
    /\ error # Null
    /\ downloading

(***************************************************************************)
(* What a download changes                                                 *)
(***************************************************************************)
\* C17: no path through handleDownload shows an error: every step of the
\* handler, on the paths that save a retrieved file and on the degraded
\* path that ends in the new-tab fallback alike, leaves error, result,
\* aiOutput and loading as they were; of the page's state it changes only
\* the downloading flag.
C17_DownloadChangesOnlyDownloading ==
    [][(download' # download \/ downloading' # downloading) =>
           UNCHANGED <<url, loading, error, result, aiLoading, aiOutput, aiMode>>]_vars

\* Both retrievals failed, the new-tab link was clicked, and the page shows
\* the result and no error.
C17_Witness ==
    /\ download.pc = "done"
    /\ ~downloading
    /\ \E k \in 1..Len(Log) : IsEv(k, "click", "newtab")
    /\ FailedRetrieval(Len(Log) - 1, "proxy")
    /\ error = Null
    /\ result # Null

(***************************************************************************)
(* findDownloadLink below the priority keys                                *)
(***************************************************************************)
ClaimedGeneric == <<"url", "link", "src">>

\* The places in the claimed order whose generic key holds, in the mapping,
\* a string that passes the candidate test.
GenericHits(obj) ==
    {k \in 1..Len(ClaimedGeneric) :
        /\ IsString(GetProp(obj, ClaimedGeneric[k]))
        /\ isVideoUrl(GetProp(obj, ClaimedGeneric[k]))}

\* The link the claims describe: a string that passes the test; in a
\* mapping the earliest priority key, else the earliest generic key, else
\* the first non-absent link of the values under the non-excluded keys in
\* iteration order; absent otherwise.
RECURSIVE ClaimedLink(_)
ClaimedLink(v) ==
    IF IsString(v) THEN (IF isVideoUrl(v) THEN v ELSE Null)
    ELSE IF ~IsObject(v) THEN Null
    ELSE IF PriorityHits(v) # {}
    THEN GetProp(v, ClaimedPriority[Min(PriorityHits(v))])
    ELSE IF GenericHits(v) # {}
    THEN GetProp(v, ClaimedGeneric[Min(GenericHits(v))])
    ELSE LET found == {i \in 1..Len(v.e) :
                          /\ toLowerCase(v.e[i][1]) \notin ClaimedExcluded
                          /\ ClaimedLink(v.e[i][2]) # Null}
         IN  IF found = {} THEN Null ELSE ClaimedLink(v.e[Min(found)][2])

\* C18: for a mapping in which no priority key holds a candidate,
\* findDownloadLink returns the value of the first of url, link, src that
\* passes the candidate test, in preference to any candidate nested deeper
\* (a nested hd included); when no generic key matches, the first non-absent
\* result of the depth-first traversal of the non-excluded keys in iteration
\* order; and absent when the traversal finds nothing or the value is
\* neither a string nor a traversable structure.
C18_GenericThenDepthFirst ==
    Returned("findDownloadLink") =>
        /\ (IsObject(call.arg) /\ PriorityHits(call.arg) = {}) =>
               call.ret = ClaimedLink(call.arg)
        /\ (~IsObject(call.arg) /\ ~IsString(call.arg)) => call.ret = Null

\* A mapping iterated with data (holding a nested hd that passes) first and
\* the generic key link after it: the value of link is returned.
C18_Witness ==
    /\ Returned("findDownloadLink")
    /\ IsObject(call.arg)
    /\ Len(call.arg.e) >= 2
    /\ call.arg.e[1][1] = "data"
    /\ findDownloadLink(call.arg.e[1][2]) = Str("https://x/data-hd.mp4")
    /\ call.arg.e[2] = <<"link", Str("https://x/link.mp4")>>
    /\ PriorityHits(call.arg) = {}
    /\ call.ret = Str("https://x/link.mp4")

(***************************************************************************)
(* The result a query stores                                               *)
(***************************************************************************)
\* Every string that occurs in a document, at any depth and under any key.
RECURSIVE StringsOf(_)
StringsOf(v) ==
    IF IsString(v) THEN {v}
    ELSE IF IsObject(v) THEN UNION { StringsOf(v.e[i][2]) : i \in 1..Len(v.e) }
    ELSE {}

ClaimedTitleKeys == <<"title", "text", "caption">>

\* The document's title, text or caption, the first of them it has, or else
\* the placeholder.
ClaimedTitle(doc) ==
    LET has == {k \in 1..Len(ClaimedTitleKeys) : Truthy(GetProp(doc, ClaimedTitleKeys[k]))}
    IN  IF has = {} THEN Str("Downloaded Video")
        ELSE GetProp(doc, ClaimedTitleKeys[Min(has)])

ClaimedAuthor(doc) ==
    IF Truthy(GetProp(doc, "author")) THEN GetProp(doc, "author") ELSE Str("Unknown")

ExampleDocument ==
    Obj(<< <<"play", Str("https://cdn/v.mp4")>>, <<"title", Str("Cool")>>,
           <<"author", Str("a")>> >>)

\* C19: a non-null result holds a downloadUrl that is a string of the
\* fetched document passing the candidate test (never absent, never with an
\* image suffix or without the HTTP prefix), a title that is the document's
\* title, text or caption or else 'Downloaded Video', and an author that is
\* the document's author or else 'Unknown'; the document
\* { play: "https://cdn/v.mp4", title: "Cool", author: "a" } yields
\* downloadUrl "https://cdn/v.mp4", title "Cool", author "a".
C19_ResultWellFormed ==
    /\ result # Null =>
          /\ settled.fetched.kind = "resolved"
          /\ GetProp(result, "source") = settled.fetched.v
          /\ IsString(GetProp(result, "downloadUrl"))
          /\ GetProp(result, "downloadUrl") \in StringsOf(settled.fetched.v)
          /\ HasHttpPrefix(GetProp(result, "downloadUrl").s)
          /\ ~EndsInImageSuffix(GetProp(result, "downloadUrl").s)
          /\ GetProp(result, "title") = ClaimedTitle(settled.fetched.v)
          /\ GetProp(result, "author") = ClaimedAuthor(settled.fetched.v)
    /\ (settled.fetched.kind = "resolved" /\ settled.fetched.v = ExampleDocument) =>
          /\ GetProp(result, "downloadUrl") = Str("https://cdn/v.mp4")
          /\ GetProp(result, "title") = Str("Cool")
          /\ GetProp(result, "author") = Str("a")

\* The example document was fetched for a TikTok address, and the result
\* holds what the claim says.
C19_Witness ==
    /\ NoQueryPending
    /\ settled.address = "https://tiktok.com/@a/video/123"
    /\ settled.fetched = [kind |-> "resolved", v |-> ExampleDocument]
    /\ result # Null
    /\ GetProp(result, "downloadUrl") = Str("https://cdn/v.mp4")
    /\ GetProp(result, "title") = Str("Cool")
    /\ GetProp(result, "author") = Str("a")

(***************************************************************************)
(* Blank addresses                                                         *)
(***************************************************************************)
Blank(s) == \A k \in 1..Len(s) : CharAt(s, k) \in WhiteSpace

\* A step that is no edit of the address field, no response to a request,
\* no step of a download and no AI action: what is left is a submission.
SubmissionOnly ==
    /\ url' = url
    /\ download' = download
    /\ ~AIStep
    /\ \A i \in 1..MaxQueries : ~Ends(i) /\ queries'[i].step = queries[i].step

\* C20: submitting an address that is empty or all white space does
\* nothing: no request is issued and loading, error, result and aiOutput
\* stay as they were, a shown result and error included; any other
\* address, however malformed, is sent on to the fetcher as it is.
C20_BlankSubmitIsNoOp ==
    [][/\ \A i \in 1..MaxQueries :
             queries[i].pc = "fetching" => ~Blank(queries[i].address)
       /\ Blank(url) =>
             /\ \A j \in 1..MaxQueries : ~Starts(j)
             /\ SubmissionOnly => UNCHANGED <<loading, error, result, aiOutput>>
       /\ (~Blank(url) /\ FreeSlots # {}) =>
             ENABLED (fetchVideoInfo /\ queries' # queries)
       /\ \A j \in 1..MaxQueries :
             Starts(j) => queries'[j].address = url /\ queries'[j].step = 1]_vars

\* The malformed address "not a url" was sent and answered; a result and an
\* error are shown, and the field now holds a single space, with which
\* Enter can be pressed.
C20_Witness ==
    /\ settled.address = "not a url"
    /\ settled.fetched.kind # "pending"
    /\ NoQueryPending
    /\ url = " "
    /\ result # Null
    /\ error # Null

(***************************************************************************)
(* The page's flags and areas                                              *)
(***************************************************************************)
\* C21: the loading flag tracks the queries in flight: loading is true
\* whenever at least one invocation of fetchVideoInfo has started and not
\* yet finished, also when queries overlap.
C21_LoadingTracksQueries ==
    (\E i \in 1..MaxQueries : queries[i].pc = "fetching") => loading

\* C22: a result and an error are never shown together: in every state,
\* under any interleaving of queries, edits of the address field, downloads
\* and AI actions, result and error are not both non-null.
C22_ResultAndErrorExclusive ==
    ~(result # Null /\ error # Null)

\* C23: AI output always belongs to a current result: in every state,
\* aiOutput non-null implies result non-null; no AI action started against
\* an earlier result writes its output after a new query cleared that
\* result, and the query that clears the result clears the output with it.
C23_AIOutputHasResult ==
    [][/\ aiOutput # Null => result # Null
       /\ aiOutput' # Null => result' # Null
       /\ AIStep => (result # Null /\ result' = result)
       /\ (result # Null /\ result' = Null) => aiOutput' = Null]_vars

\* A later query cleared the page and is still pending; the earlier one
\* wrote its result after that, and an AI action has written its output
\* against this result.
C23_Witness ==
    /\ ai.pc = "done"
    /\ aiOutput # Null
    /\ result # Null
    /\ \E i \in 1..MaxQueries : queries[i].pc = "fetching"

(***************************************************************************)
(* Links activated by a download                                           *)
(***************************************************************************)
\* The places of the log where a link was clicked.
Clicks == {k \in 1..Len(Log) : Log[k].ev = "click"}

\* One click of the button never produces two downloads.
AtMostOneLink == Cardinality(Clicks) <= 1

\* C24: each invocation of handleDownload activates exactly one link:
\* exactly one of the direct save, the proxy save and the new-tab fallback
\* triggers its save or navigation, also when a step of a strategy fails
\* after its blob was retrieved.
C24_ExactlyOneLink ==
    /\ AtMostOneLink
    /\ download.pc = "done" => Cardinality(Clicks) = 1

=============================================================================
